---- MODULE Spec2Model ----
(***************************************************************************)
(* A model of reshader (cozyGalvinism/reshader): the ReShade installer     *)
(* library (src/lib/lib.rs) and binary (src/main.rs).                      *)
(*                                                                         *)
(*   SpecDownload : download_reshade - obtaining the installer, the scan   *)
(*                  for the zip signature, the extraction of ReShade64.dll *)
(*   SpecInstall  : install_reshade, uninstall, install_preset_for_game,   *)
(*                  install_reshade_shaders on game directories, and the   *)
(*                  managed-game list of the binary                        *)
(*   SpecShaders  : download_shader_collections - unpacking and merging    *)
(*                  shader collections                                     *)
(***************************************************************************)
EXTENDS Integers, Sequences, FiniteSets, TLC

VARIABLES
    \* ---- download_reshade ----
    installer,      \* the bytes of the file at reshade_path
    archive,        \* what the zip crate finds in that file
    vanilla,        \* the `vanilla` argument
    dl_version,     \* the `version` argument, an Option<String>
    specific_installer, \* whether the `specific_installer` argument is Some
    dl_lookup,      \* get_latest_reshade_version asked the tags endpoint
    data_dir0,      \* the data directory when download_reshade was called
    data_dir,       \* the data directory: file name -> content
    dl_pc,          \* position in download_reshade
    offset,         \* the local `offset` of the scan loop
    cursor,         \* the stream position of `exe`
    scan,           \* how the scan loop ended: "pending", "found", "eof"
    dl_result,      \* what download_reshade returned
    \* ---- game directories and the managed-game list ----
    crate,          \* whose functions the process calls: "lib" or "bin"
    game_dir,       \* game path -> the directory there
    game_paths,     \* config.game_paths
    last,           \* the last call: operation, arguments, result
    pre,            \* the file system and the list before the last call
    repeated,       \* the last call repeats the successful call before it
    \* ---- download_shader_collections ----
    sh_tree0,       \* the tree below `directory` before the first call
    sh_tree,        \* the tree below `directory`
    sh_pre,         \* that tree when download_shader_collections was called
    sh_call,        \* the `collections` argument
    sh_idx,         \* the collection the loop is at
    sh_root,        \* the local `root_dir`: what unpack returned
    sh_pc,          \* position in download_shader_collections
    sh_result,      \* what download_shader_collections returned
    sh_syncs,       \* the calls made so far
    \* ---- get_latest_reshade_version ----
    ver_version,    \* the `version` argument, an Option<String>
    ver_vanilla,    \* the `vanilla` argument
    ver_listing,    \* the tag names the tags endpoint returned, in its order
    ver_lookup,     \* a request to the tags endpoint was sent
    ver_latest,     \* the local `version` the URL is formatted with
    ver_pc,         \* position in get_latest_reshade_version
    ver_result,     \* what get_latest_reshade_version returned
    \* ---- main and tui ----
    tui_pc,         \* position of the process: start, cli, menu or exited
    tui_last,       \* the last action: option, failed step, error shown, exit site
    config_file,    \* what config_dir/config.toml holds
    \* ---- download_file ----
    net_pc,         \* position in download_file
    net_url,        \* the `url` argument
    net_status,     \* the status code of the response
    net_body,       \* the bytes of the response
    net_dest,       \* the file at `path`
    net_result,     \* what download_file returned
    \* ---- git::pull ----
    git_path,       \* what is at repository_path: nothing, a directory, a repository
    git_branch,     \* the `branch` argument, an Option<&str>
    git_repo,       \* the repository: HEAD's branch, the branches, the merge commit
    git_repo0,      \* the repository when pull was called
    git_remote,     \* the branches of origin
    git_conflicting,\* the local and the remote history changed the same lines
    git_fetch_head, \* the commit FETCH_HEAD names
    git_ops,        \* the git operations pull has performed
    git_pc,         \* position in pull
    git_result      \* what pull returned

dlVars == <<installer, archive, vanilla, dl_version, specific_installer, dl_lookup,
            data_dir0, dl_pc, offset, cursor, scan, dl_result>>
fsVars == <<crate, game_dir, game_paths, last, pre, repeated>>

shVars == <<sh_tree0, sh_tree, sh_pre, sh_call, sh_idx, sh_root, sh_pc, sh_result,
            sh_syncs>>

verVars == <<ver_version, ver_vanilla, ver_listing, ver_lookup, ver_latest, ver_pc,
             ver_result>>

tuiVars == <<tui_pc, tui_last, config_file>>

netVars == <<net_pc, net_url, net_status, net_body, net_dest, net_result>>

gitVars == <<git_path, git_branch, git_repo, git_repo0, git_remote, git_conflicting,
             git_fetch_head, git_ops, git_pc, git_result>>

xVars == <<verVars, tuiVars, netVars, gitVars>>

vars == <<dlVars, data_dir, fsVars, shVars, xVars>>

Absent == "absent"

(***************************************************************************)
(* Bounds                                                                  *)
(***************************************************************************)
MaxLen == 5
MaxCollections == 2
MaxSyncs == 2
MaxTags == 3

(***************************************************************************)
(* download_reshade                                                        *)
(***************************************************************************)
\* the zip local-file-header signature the loop compares with
ZipSignature == <<80, 75, 3, 4>>

\* the byte values installers are built from: the signature's and one other
Bytes == {80, 75, 3, 4, 0}

ByteStreams == UNION {[1..n -> Bytes] : n \in 0..MaxLen}

\* the entries an installer archive may hold, and their contents
EntryNames == {"ReShade64.dll", "ReShade32.dll"}

\* the files download_reshade writes in the data directory
VariantFile(van) == IF van THEN "ReShade64.Vanilla.dll" ELSE "ReShade64.Addon.dll"
DataFiles == {"ReShade64.Vanilla.dll", "ReShade64.Addon.dll", "d3dcompiler_47.dll"}

\* the names in the data directory that symlinks of a game directory point at
DataNames == DataFiles \cup {"reshade-presets", "reshade-shaders", "Merged"}

\* the content served at https://lutris.net/files/tools/dll/d3dcompiler_47.dll
D3dDownload == "d3dcompiler_download"

\* read_exact(&mut buf) at position pos: the four bytes, or <<>> at end of file
ReadExact(bytes, pos) ==
    IF pos + 4 <= Len(bytes) THEN SubSeq(bytes, pos + 1, pos + 4) ELSE <<>>

ScanStep_stride4(bytes, off, pos) ==
    LET buf == ReadExact(bytes, pos) IN
    IF buf = <<>> THEN [scan |-> "eof", offset |-> off, cursor |-> pos]
    ELSE IF buf = ZipSignature
         THEN [scan |-> "found", offset |-> off, cursor |-> pos + 4]
         ELSE [scan |-> "pending", offset |-> off + 4, cursor |-> off + 4]

\* one iteration of the scan loop: read four bytes, compare, else step one byte
ScanStep(bytes, off, pos) ==
    LET buf == ReadExact(bytes, pos) IN
    IF buf = <<>> THEN [scan |-> "eof", offset |-> off, cursor |-> pos]
    ELSE IF buf = ZipSignature
         THEN [scan |-> "found", offset |-> off, cursor |-> pos + 4]
         ELSE [scan |-> "pending", offset |-> off + 1, cursor |-> off + 1]

ExtractReShade_copyFirst(arch, dir, van) ==
    LET copied == [dir EXCEPT !["d3dcompiler_47.dll"] = D3dDownload] IN
    IF arch.entries["ReShade64.dll"] = Absent
    THEN [res |-> "NoReShade64Dll", dir |-> copied]
    ELSE [res |-> "Ok",
          dir |-> [copied EXCEPT ![VariantFile(van)] = arch.entries["ReShade64.dll"]]]

\* by_name("ReShade64.dll"), read_to_end, write of the variant file, copy of
\* d3dcompiler_47.dll
ExtractReShade(arch, dir, van) ==
    IF arch.entries["ReShade64.dll"] = Absent
    THEN [res |-> "NoReShade64Dll", dir |-> dir]
    ELSE [res |-> "Ok",
          dir |-> [dir EXCEPT ![VariantFile(van)] = arch.entries["ReShade64.dll"],
                              !["d3dcompiler_47.dll"] = D3dDownload]]

\* whether, and where first, the signature occurs in a stream
SigAt(bytes, k) == k + 4 <= Len(bytes) /\ SubSeq(bytes, k + 1, k + 4) = ZipSignature
HasSig(bytes) == \E k \in 0..Len(bytes) : SigAt(bytes, k)
FirstSig(bytes) == CHOOSE k \in 0..Len(bytes) :
                      SigAt(bytes, k) /\ \A j \in 0..(k - 1) : ~SigAt(bytes, j)

\* what ZipArchive::new can find in a file: nothing, or entries by name.
\* An archive with an entry has a local file header, so the signature.
NoZip == [valid |-> FALSE, entries |-> [n \in EntryNames |-> Absent]]
Archives ==
    {NoZip} \cup
    {[valid |-> TRUE, entries |-> e] :
        e \in {[n \in EntryNames |-> Absent],
               [n \in EntryNames |-> IF n = "ReShade32.dll" THEN "dll_32" ELSE Absent],
               [n \in EntryNames |-> IF n = "ReShade64.dll" THEN "dll_a" ELSE Absent],
               [n \in EntryNames |-> IF n = "ReShade64.dll" THEN "dll_b" ELSE "dll_32"]}}

DataDirs == {[f \in DataNames |-> Absent],
             [f \in DataNames |-> IF f \in DataFiles THEN "old" ELSE "tree"]}

(***************************************************************************)
(* Game directories: install_reshade, uninstall, install_preset_for_game,  *)
(* install_reshade_shaders, and config.game_paths                          *)
(***************************************************************************)
GamePaths == {"/games/a", "/games/b"}

\* the names the functions touch in a game directory
AssetNames == {"dxgi.dll", "d3dcompiler_47.dll", "reshade-presets", "reshade-shaders",
               "gshade-presets", "gshade-shaders"}
GameNames == AssetNames \cup {"ReShade.ini"}

\* an entry of a directory: nothing, a plain file (val its content), a real
\* directory (val its contents), or a symlink (val its target in the data directory)
NoEntry == [kind |-> "absent", val |-> ""]
FileEntry(content) == [kind |-> "file", val |-> content]
DirEntry(contents) == [kind |-> "dir", val |-> contents]
LinkEntry(target) == [kind |-> "link", val |-> target]

\* include_str!("../../reshade.example.ini")
DEFAULT_INI == "reshade.example.ini"

\* the state a function body works on: the game directory at game_path, the
\* data directory, config.game_paths, and Ok until a `?` returns an error
Body(dir, data, paths) == [res |-> "Ok", dir |-> dir, data |-> data, paths |-> paths]
Fail(s, err) == [s EXCEPT !.res = err]
\* `?`: the rest of the body runs only when no error was returned
Then(s, rest) == IF s.res = "Ok" THEN rest ELSE s

\* Path::exists: follows symlinks, so a dangling symlink does not exist
Exists(e, data) ==
    \/ e.kind \in {"file", "dir"}
    \/ e.kind = "link" /\ data[e.val] # Absent

\* std::fs::read_link(..).is_ok()
IsSymlink(e) == e.kind = "link"

\* std::fs::remove_file: unlinks a file or a symlink, fails on a directory
remove_file(s, n) ==
    IF s.dir.entries[n].kind \in {"file", "link"}
    THEN [s EXCEPT !.dir.entries[n] = NoEntry]
    ELSE Fail(s, "Io")

\* std::fs::remove_dir_all: removes a directory tree; given a symlink it removes
\* the link and does not follow it; fails on a plain file
remove_dir_all(s, n) ==
    IF s.dir.entries[n].kind \in {"dir", "link"}
    THEN [s EXCEPT !.dir.entries[n] = NoEntry]
    ELSE Fail(s, "Io")

\* std::os::unix::fs::symlink(data_dir.join(target), game_path.join(n)): fails
\* when the name is taken (dangling symlinks included) or the directory is missing
symlink(s, target, n) ==
    IF s.dir.exists /\ s.dir.entries[n].kind = "absent"
    THEN [s EXCEPT !.dir.entries[n] = LinkEntry(target)]
    ELSE Fail(s, "Io")

\* std::fs::write(game_path.join(n), content): creates or truncates the file,
\* writing through a symlink
write(s, n, content) ==
    LET e == s.dir.entries[n] IN
    CASE ~s.dir.exists \/ e.kind = "dir" -> Fail(s, "Io")
      [] e.kind = "link" -> [s EXCEPT !.data[e.val] = content]
      [] OTHER -> [s EXCEPT !.dir.entries[n] = FileEntry(content)]

\* if path.exists() { remove_file(path)? }
RemoveFileIfExists(s, n) ==
    IF Exists(s.dir.entries[n], s.data) THEN remove_file(s, n) ELSE s

\* if path.exists() { remove_dir_all(path)? }
RemoveDirAllIfExists(s, n) ==
    IF Exists(s.dir.entries[n], s.data) THEN remove_dir_all(s, n) ELSE s

InstallLinks_keepLoader(s0, van) ==
    LET s2 == RemoveFileIfExists(s0, "d3dcompiler_47.dll")
        s3 == IF IsSymlink(s0.dir.entries["dxgi.dll"]) THEN s2
              ELSE LET s1 == Then(s2, RemoveFileIfExists(s2, "dxgi.dll")) IN
                   Then(s1, symlink(s1, VariantFile(van), "dxgi.dll"))
    IN  Then(s3, symlink(s3, "d3dcompiler_47.dll", "d3dcompiler_47.dll"))

\* the removals and the two symlinks both install_reshade functions start with
InstallLinks(s0, van) ==
    LET s1 == RemoveFileIfExists(s0, "dxgi.dll")
        s2 == Then(s1, RemoveFileIfExists(s1, "d3dcompiler_47.dll"))
        s3 == Then(s2, symlink(s2, VariantFile(van), "dxgi.dll"))
    IN  Then(s3, symlink(s3, "d3dcompiler_47.dll", "d3dcompiler_47.dll"))

lib_install_reshade_conflict(s0, van) ==
    IF s0.dir.entries["dxgi.dll"].kind \in {"file", "dir"}
    THEN Fail(s0, "Symlink")
    ELSE LET s4 == InstallLinks(s0, van) IN
         Then(s4, IF ~Exists(s4.dir.entries["ReShade.ini"], s4.data)
                  THEN write(s4, "ReShade.ini", DEFAULT_INI) ELSE s4)

\* reshaderlib::install_reshade(data_dir, game_path, vanilla)
lib_install_reshade(s0, van) ==
    LET s4 == InstallLinks(s0, van) IN
    Then(s4, IF ~Exists(s4.dir.entries["ReShade.ini"], s4.data)
             THEN write(s4, "ReShade.ini", DEFAULT_INI) ELSE s4)

InSeq(x, seq) == \E i \in 1..Len(seq) : seq[i] = x

bin_install_reshade_push(s0, game, van) ==
    LET s4 == InstallLinks(s0, van) IN
    Then(s4, [s4 EXCEPT !.paths = Append(@, game)])

\* main.rs install_reshade(config, data_dir, game_path, vanilla)
bin_install_reshade(s0, game, van) ==
    LET s4 == InstallLinks(s0, van) IN
    Then(s4, IF InSeq(game, s4.paths) THEN s4
             ELSE [s4 EXCEPT !.paths = Append(@, game)])

\* the four removals both uninstall functions make
UninstallFiles(s0) ==
    LET s1 == RemoveFileIfExists(s0, "dxgi.dll")
        s2 == Then(s1, RemoveFileIfExists(s1, "d3dcompiler_47.dll"))
        s3 == Then(s2, RemoveDirAllIfExists(s2, "reshade-presets"))
    IN  Then(s3, RemoveDirAllIfExists(s3, "reshade-shaders"))

\* reshaderlib::uninstall(game_path)
lib_uninstall(s0) == UninstallFiles(s0)

Retain(paths, game) == LET keep(p) == p # game IN SelectSeq(paths, keep)

bin_uninstall_retain_eq(s0, game) ==
    LET s4 == UninstallFiles(s0)
        keep(p) == p = game
    IN  Then(s4, [s4 EXCEPT !.paths = SelectSeq(@, keep)])

\* main.rs uninstall(config, game_path)
bin_uninstall_retainFirst(s0, game) ==
    UninstallFiles([s0 EXCEPT !.paths = Retain(@, game)])

bin_uninstall(s0, game) ==
    LET s4 == UninstallFiles(s0) IN
    Then(s4, [s4 EXCEPT !.paths = Retain(@, game)])

\* install_preset_for_game with the two names of the crate
InstallPresetLinks(s0, presets, shaders) ==
    IF IsSymlink(s0.dir.entries[presets]) \/ IsSymlink(s0.dir.entries[shaders])
    THEN s0
    ELSE LET s1 == symlink(s0, "reshade-presets", presets) IN
         Then(s1, symlink(s1, "reshade-shaders", shaders))

\* reshaderlib::install_preset_for_game(data_dir, game_path)
lib_install_preset_for_game(s0) == InstallPresetLinks(s0, "gshade-presets", "gshade-shaders")

\* main.rs install_preset_for_game(data_dir, game_path)
bin_install_preset_for_game(s0) == InstallPresetLinks(s0, "reshade-presets", "reshade-shaders")

install_reshade_shaders_replace(s0) ==
    LET e == s0.dir.entries["reshade-shaders"] IN
    IF Exists(e, s0.data) /\ IsSymlink(e) THEN s0
    ELSE symlink([s0 EXCEPT !.dir.entries["reshade-shaders"] = NoEntry],
                 "Merged", "reshade-shaders")

\* reshaderlib::install_reshade_shaders(directory, game_path), directory the
\* Merged tree of the data directory
install_reshade_shaders(s0) ==
    LET e == s0.dir.entries["reshade-shaders"] IN
    IF Exists(e, s0.data) /\ ~IsSymlink(e) THEN Fail(s0, "Symlink")
    ELSE IF Exists(e, s0.data) /\ IsSymlink(e) THEN s0
    ELSE symlink(s0, "Merged", "reshade-shaders")

\* the directories a game path may hold before the program runs
EmptyDir == [exists |-> TRUE, entries |-> [n \in GameNames |-> NoEntry]]
MissingDir == [exists |-> FALSE, entries |-> [n \in GameNames |-> NoEntry]]
LoaderProfiles ==
    {[n \in {"dxgi.dll", "d3dcompiler_47.dll", "ReShade.ini"} |-> NoEntry],
     [n \in {"dxgi.dll", "d3dcompiler_47.dll", "ReShade.ini"} |-> FileEntry("user")],
     [n \in {"dxgi.dll", "d3dcompiler_47.dll", "ReShade.ini"} |->
        IF n = "d3dcompiler_47.dll" THEN DirEntry("user") ELSE NoEntry],
     [n \in {"dxgi.dll", "d3dcompiler_47.dll", "ReShade.ini"} |->
        IF n = "ReShade.ini" THEN FileEntry("user") ELSE NoEntry]}
TreeProfiles ==
    {[n \in {"reshade-presets", "reshade-shaders", "gshade-presets", "gshade-shaders"} |->
        NoEntry],
     [n \in {"reshade-presets", "reshade-shaders", "gshade-presets", "gshade-shaders"} |->
        DirEntry("user")],
     [n \in {"reshade-presets", "reshade-shaders", "gshade-presets", "gshade-shaders"} |->
        IF n \in {"reshade-shaders", "gshade-shaders"} THEN FileEntry("user") ELSE NoEntry]}
GameDirs ==
    {MissingDir} \cup
    {[exists |-> TRUE,
      entries |-> [n \in GameNames |-> IF n \in DOMAIN l THEN l[n] ELSE t[n]]] :
        l \in LoaderProfiles, t \in TreeProfiles}

\* the second game path starts from fewer of them
OtherGameDirs ==
    {MissingDir, EmptyDir} \cup
    {d \in GameDirs : /\ d.exists
                      /\ d.entries["dxgi.dll"].kind = "file"
                      /\ d.entries["reshade-presets"].kind = "dir"}

\* lists of game paths without duplicates
NoDuplicates(seq) == \A i, j \in 1..Len(seq) : seq[i] = seq[j] => i = j
PathLists == {seq \in UNION {[1..n -> GamePaths] : n \in 0..Cardinality(GamePaths)} :
                NoDuplicates(seq)}

NoCall == [op |-> "none", game |-> "", vanilla |-> FALSE, res |-> "none"]
Snapshot == [game_dir |-> game_dir, data |-> data_dir, paths |-> game_paths]

\* a tree without directories and files
EmptyTree == [dirs |-> {}, files |-> <<>>]

ShIdle ==
    /\ sh_tree0 = EmptyTree
    /\ sh_tree = EmptyTree
    /\ sh_pre = EmptyTree
    /\ sh_call = <<>>
    /\ sh_idx = 0
    /\ sh_root = <<>>
    /\ sh_pc = "idle"
    /\ sh_result = "none"
    /\ sh_syncs = 0

\* an Option<String>: None, or Some(val)
None == [some |-> FALSE, val |-> <<>>]
Some(val) == [some |-> TRUE, val |-> val]

NoReturn == [res |-> "none", url |-> <<>>]

VerIdle ==
    /\ ver_version = None
    /\ ver_vanilla = FALSE
    /\ ver_listing = <<>>
    /\ ver_lookup = FALSE
    /\ ver_latest = <<>>
    /\ ver_pc = "idle"
    /\ ver_result = NoReturn

\* no action of the process yet
NoStep == [option |-> "none", failed |-> "none", shown |-> FALSE, exit |-> "none",
           res |-> "none"]
\* no file at config_dir/config.toml
NoFile == [kind |-> "absent", game_paths |-> <<>>]

TuiIdle ==
    /\ tui_pc = "idle"
    /\ tui_last = NoStep
    /\ config_file = NoFile

NetIdle ==
    /\ net_pc = "idle"
    /\ net_url = ""
    /\ net_status = 0
    /\ net_body = ""
    /\ net_dest = [creatable |-> FALSE, content |-> Absent]
    /\ net_result = [res |-> "none", url |-> ""]

GitIdle ==
    /\ git_path = "missing"
    /\ git_branch = None
    /\ git_repo = [head |-> "main", refs |-> [b \in {"main", "dev"} |-> Absent],
                   merge |-> [made |-> FALSE, parents |-> <<>>], worktree |-> "HEAD"]
    /\ git_repo0 = git_repo
    /\ git_remote = [b \in {"main", "dev"} |-> Absent]
    /\ git_conflicting = FALSE
    /\ git_fetch_head = Absent
    /\ git_ops = <<>>
    /\ git_pc = "idle"
    /\ git_result = [res |-> "none", branch |-> "", name |-> ""]

XIdle == VerIdle /\ TuiIdle /\ NetIdle /\ GitIdle

FsIdle ==
    /\ crate = "none"
    /\ game_dir = [g \in GamePaths |-> MissingDir]
    /\ game_paths = <<>>
    /\ last = NoCall
    /\ pre = [game_dir |-> game_dir, data |-> data_dir, paths |-> game_paths]
    /\ repeated = FALSE

DlIdle ==
    /\ installer = <<>>
    /\ archive = NoZip
    /\ vanilla = FALSE
    /\ dl_version = None
    /\ specific_installer = FALSE
    /\ dl_lookup = FALSE
    /\ data_dir0 = data_dir
    /\ dl_pc = "idle"
    /\ offset = 0
    /\ cursor = 0
    /\ scan = "pending"
    /\ dl_result = "none"

FsInit ==
    /\ crate \in {"lib", "bin"}
    /\ game_dir \in {d \in [GamePaths -> GameDirs] : d["/games/b"] \in OtherGameDirs}
    /\ data_dir \in DataDirs
    /\ game_paths \in (IF crate = "bin" THEN PathLists ELSE {<<>>})
    /\ last = NoCall
    /\ pre = [game_dir |-> game_dir, data |-> data_dir, paths |-> game_paths]
    /\ repeated = FALSE
    /\ DlIdle
    /\ ShIdle
    /\ XIdle

\* a call op(game, van) took the body state to s
Called(op, game, van, s) ==
    /\ game_dir' = [game_dir EXCEPT ![game] = s.dir]
    /\ data_dir' = s.data
    /\ game_paths' = s.paths
    /\ last' = [op |-> op, game |-> game, vanilla |-> van, res |-> s.res]
    /\ pre' = Snapshot
    /\ repeated' = (last = [op |-> op, game |-> game, vanilla |-> van, res |-> "Ok"])
    /\ UNCHANGED <<crate, dlVars, shVars, xVars>>

Start(game) == Body(game_dir[game], data_dir, game_paths)

LibInstallReshade ==
    /\ crate = "lib"
    /\ \E game \in GamePaths, van \in BOOLEAN :
          Called("install_reshade", game, van, lib_install_reshade(Start(game), van))

BinInstallReshade ==
    /\ crate = "bin"
    /\ \E game \in GamePaths, van \in BOOLEAN :
          Called("install_reshade", game, van, bin_install_reshade(Start(game), game, van))

LibUninstall ==
    /\ crate = "lib"
    /\ \E game \in GamePaths :
          Called("uninstall", game, FALSE, lib_uninstall(Start(game)))

BinUninstall ==
    /\ crate = "bin"
    /\ \E game \in GamePaths :
          Called("uninstall", game, FALSE, bin_uninstall(Start(game), game))

LibInstallPresetForGame ==
    /\ crate = "lib"
    /\ \E game \in GamePaths :
          Called("install_preset_for_game", game, FALSE,
                 lib_install_preset_for_game(Start(game)))

BinInstallPresetForGame ==
    /\ crate = "bin"
    /\ \E game \in GamePaths :
          Called("install_preset_for_game", game, FALSE,
                 bin_install_preset_for_game(Start(game)))

LibInstallReshadeShaders ==
    /\ crate = "lib"
    /\ \E game \in GamePaths :
          Called("install_reshade_shaders", game, FALSE,
                 install_reshade_shaders(Start(game)))

FsNext ==
    \/ LibInstallReshade \/ BinInstallReshade
    \/ LibUninstall \/ BinUninstall
    \/ LibInstallPresetForGame \/ BinInstallPresetForGame
    \/ LibInstallReshadeShaders

SpecInstall == FsInit /\ [][FsNext]_vars

(***************************************************************************)
(* Shader collections: ShaderCollection::download, ShaderCollection::unpack*)
(* and download_shader_collections, on the tree below `directory`          *)
(***************************************************************************)
\* a tree: the directories and the files (path -> content) below `directory`;
\* a path is the sequence of its components
IsPrefix(p, q) == Len(p) <= Len(q) /\ SubSeq(q, 1, Len(p)) = p
Prefixes(p) == {SubSeq(p, 1, n) : n \in 1..Len(p)}
Parent(p) == SubSeq(p, 1, Len(p) - 1)
Rel(p, base) == SubSeq(p, Len(base) + 1, Len(p))

TBody(tree) == [res |-> "Ok", tree |-> tree]

\* Path::exists
TExists(t, p) == p \in t.dirs \/ p \in DOMAIN t.files

\* std::fs::remove_dir_all(p)
TRemoveDirAll(t, p) ==
    [dirs |-> {d \in t.dirs : ~IsPrefix(p, d)},
     files |-> [q \in {q \in DOMAIN t.files : ~IsPrefix(p, q)} |-> t.files[q]]]

\* std::fs::create_dir(p): fails when p exists
TCreateDir(s, p) ==
    IF TExists(s.tree, p) THEN Fail(s, "Io")
    ELSE [s EXCEPT !.tree.dirs = @ \cup {p}]

\* std::fs::create_dir_all(p): fails when a component is a file
TCreateDirAll(s, p) ==
    IF \E q \in Prefixes(p) : q \in DOMAIN s.tree.files THEN Fail(s, "Io")
    ELSE [s EXCEPT !.tree.dirs = @ \cup Prefixes(p)]

\* File::create(p) and the write of its content: fails when p is a directory
TWriteFile(s, p, content) ==
    IF p \in s.tree.dirs \/ Parent(p) \notin s.tree.dirs THEN Fail(s, "Io")
    ELSE [s EXCEPT !.tree.files = (p :> content) @@ @]

CopyTree_keep(s, src, dst) ==
    LET srcDirs == {d \in s.tree.dirs : IsPrefix(src, d)}
        srcFiles == {f \in DOMAIN s.tree.files : IsPrefix(src, f)}
        fresh == {f \in srcFiles : dst \o Rel(f, src) \notin DOMAIN s.tree.files}
        copied == [q \in {dst \o Rel(f, src) : f \in fresh} |->
                     s.tree.files[src \o Rel(q, dst)]]
    IN  [s EXCEPT !.tree.dirs = @ \cup {dst \o Rel(d, src) : d \in srcDirs},
                  !.tree.files = copied @@ @]

\* CopyBuilder::new(src, dst).overwrite(true).run(): every directory below src
\* is created below dst, every file below src is copied over the file at the
\* same relative path below dst; nothing below dst is removed
CopyTree(s, src, dst) ==
    LET srcDirs == {d \in s.tree.dirs : IsPrefix(src, d)}
        srcFiles == {f \in DOMAIN s.tree.files : IsPrefix(src, f)}
        copied == [q \in {dst \o Rel(f, src) : f \in srcFiles} |->
                     s.tree.files[src \o Rel(q, dst)]]
    IN  [s EXCEPT !.tree.dirs = @ \cup {dst \o Rel(d, src) : d \in srcDirs},
                  !.tree.files = copied @@ @]

\* the entries of a zip archive, in the archive's order: a directory entry (its
\* name ends with '/') or a file entry with its content
ZipDir(path) == [path |-> path, dir |-> TRUE, content |-> ""]
ZipFile(path, content) == [path |-> path, dir |-> FALSE, content |-> content]

\* the archives the collections' download URLs serve:
\* a root folder with Shaders and Textures
ArchiveOne ==
    <<ZipDir(<<"one-main">>), ZipDir(<<"one-main", "Shaders">>),
      ZipFile(<<"one-main", "Shaders", "a.fx">>, "one:a.fx"),
      ZipFile(<<"one-main", "Shaders", "b.fx">>, "one:b.fx"),
      ZipDir(<<"one-main", "Textures">>),
      ZipFile(<<"one-main", "Textures", "t.png">>, "one:t.png")>>
\* a root folder, and no entries for the folders below it
ArchiveTwo ==
    <<ZipDir(<<"two-main">>),
      ZipFile(<<"two-main", "Shaders", "a.fx">>, "two:a.fx"),
      ZipFile(<<"two-main", "Textures", "t.png">>, "two:t.png")>>
\* a repository of the same name and branch as the first, so the same root
\* folder; it has no Textures
ArchiveThree ==
    <<ZipDir(<<"one-main">>), ZipDir(<<"one-main", "Shaders">>),
      ZipFile(<<"one-main", "Shaders", "a.fx">>, "three:a.fx")>>
\* an archive without directory entries: its first entry is a file
ArchiveFour ==
    <<ZipFile(<<"four-main", "Shaders", "a.fx">>, "four:a.fx")>>
\* an archive without entries
ArchiveFive == <<>>

MergedShaders == <<"Merged", "Shaders">>
MergedTextures == <<"Merged", "Textures">>

\* ShaderCollection: name, install_path, texture_install_path, and the archive
\* at download_url
Collection(name, install, textures, zip) ==
    [name |-> name, install_path |-> install, texture_install_path |-> textures,
     zip |-> zip]
ShaderCollections ==
    {Collection("one", MergedShaders, MergedTextures, ArchiveOne),
     Collection("two", MergedShaders, MergedTextures, ArchiveTwo),
     Collection("three", MergedShaders \o <<"three">>, MergedTextures, ArchiveThree),
     Collection("four", MergedShaders, MergedTextures, ArchiveFour),
     Collection("five", MergedShaders, MergedTextures, ArchiveFive)}

ZipDirectory == <<"zips">>
ZipPath(c) == ZipDirectory \o <<c.name \o ".zip">>

\* ShaderCollection::download(target_directory): the archive is written to
\* <target_directory>/<name>.zip
Download(s, c) == TWriteFile(s, ZipPath(c), "zip")

\* the loop of ShaderCollection::unpack over the archive's entries
RECURSIVE UnpackEntries(_, _, _)
UnpackEntries(s, entries, i) ==
    IF i > Len(entries) \/ s.res # "Ok" THEN s
    ELSE LET e == entries[i]
             outpath == ZipDirectory \o e.path
             made == IF e.dir THEN TCreateDirAll(s, outpath)
                     ELSE LET p == IF TExists(s.tree, Parent(outpath)) THEN s
                                   ELSE TCreateDirAll(s, Parent(outpath))
                          IN  Then(p, TWriteFile(p, outpath, e.content))
         IN  UnpackEntries(made, entries, i + 1)

\* ShaderCollection::unpack(target_directory): extracts every entry and returns
\* as root directory the name of the archive's first entry; for an archive
\* without entries it creates the directory <name>.zip and returns that
Unpack(s, c) ==
    LET u == UnpackEntries(s, c.zip, 1) IN
    IF u.res # "Ok" THEN [res |-> u.res, tree |-> u.tree, root |-> <<>>]
    ELSE IF Len(c.zip) > 0
         THEN [res |-> "Ok", tree |-> u.tree, root |-> c.zip[1].path]
         ELSE LET d == TCreateDir(u, ZipPath(c)) IN
              [res |-> d.res, tree |-> d.tree, root |-> <<c.name \o ".zip">>]

\* the part of the loop body of download_shader_collections after the unpack
MergeCollection(s, c, root) ==
    LET repo == ZipDirectory \o root
        s1 == IF TExists(s.tree, c.install_path) THEN s
              ELSE TCreateDirAll(s, c.install_path)
        s2 == Then(s1, IF TExists(s1.tree, c.texture_install_path) THEN s1
                       ELSE TCreateDirAll(s1, c.texture_install_path))
        s3 == Then(s2, IF TExists(s2.tree, repo \o <<"Shaders">>)
                       THEN CopyTree(s2, repo \o <<"Shaders">>, c.install_path)
                       ELSE s2)
    IN  Then(s3, IF TExists(s3.tree, repo \o <<"Textures">>)
                 THEN CopyTree(s3, repo \o <<"Textures">>, c.texture_install_path)
                 ELSE s3)

\* the first part of the loop body of download_shader_collections, for a
\* collection whose download succeeded: the archive is stored and unpacked
FetchCollection(s, c) ==
    LET d == Download(s, c) IN
    IF d.res # "Ok" THEN [res |-> d.res, tree |-> d.tree, root |-> <<>>]
    ELSE Unpack(d, c)

ClearZips_all(t) ==
    [dirs |-> {ZipDirectory}, files |-> <<>>]

\* the start of download_shader_collections: the zips directory is emptied
ClearZips(t) ==
    LET r == IF TExists(t, ZipDirectory) THEN TRemoveDirAll(t, ZipDirectory) ELSE t
    IN  [r EXCEPT !.dirs = @ \cup {ZipDirectory}]

\* the trees below `directory` before the first call
UsedTree ==
    [dirs |-> {<<"Merged">>, MergedShaders, MergedTextures, <<"zips">>},
     files |-> (MergedShaders \o <<"a.fx">> :> "old:a.fx")
            @@ (MergedShaders \o <<"mine.fx">> :> "old:mine.fx")
            @@ (MergedTextures \o <<"mine.png">> :> "old:mine.png")
            @@ (<<"zips", "stale.zip">> :> "zip")]

\* the lists of collections a call may be given
CollectionLists ==
    {cs \in UNION {[1..n -> ShaderCollections] : n \in 0..MaxCollections} :
        NoDuplicates(cs)}

ShInit ==
    /\ sh_tree0 \in {EmptyTree, UsedTree}
    /\ sh_tree = sh_tree0
    /\ sh_pre = sh_tree
    /\ sh_call = <<>>
    /\ sh_idx = 0
    /\ sh_root = <<>>
    /\ sh_pc = "ready"
    /\ sh_result = "none"
    /\ sh_syncs = 0
    /\ data_dir = [f \in DataNames |-> Absent]
    /\ DlIdle
    /\ FsIdle
    /\ XIdle

\* download_shader_collections(collections, directory) is called
ShBegin ==
    /\ sh_pc \in {"ready", "done"}
    /\ sh_syncs < MaxSyncs
    /\ \E cs \in CollectionLists :
          /\ sh_call' = cs
          /\ sh_pre' = sh_tree
          /\ sh_tree' = ClearZips(sh_tree)
          /\ sh_idx' = 1
          /\ sh_root' = <<>>
          /\ sh_pc' = "loop"
          /\ sh_result' = "none"
          /\ sh_syncs' = sh_syncs + 1
    /\ UNCHANGED <<sh_tree0, dlVars, data_dir, fsVars, xVars>>

\* an iteration of `for collection in collections`, up to the unpack
ShCollection ==
    /\ sh_pc = "loop"
    /\ sh_idx <= Len(sh_call)
    /\ \E downloaded \in BOOLEAN :
          IF ~downloaded
          THEN /\ sh_pc' = "done"
               /\ sh_result' = "Download"
               /\ UNCHANGED <<sh_tree, sh_root>>
          ELSE LET u == FetchCollection(TBody(sh_tree), sh_call[sh_idx]) IN
               /\ sh_tree' = u.tree
               /\ sh_root' = u.root
               /\ IF u.res = "Ok"
                  THEN sh_pc' = "merge" /\ UNCHANGED sh_result
                  ELSE sh_pc' = "done" /\ sh_result' = u.res
    /\ UNCHANGED <<sh_tree0, sh_call, sh_idx, sh_pre, sh_syncs, dlVars, data_dir, fsVars, xVars>>

\* the rest of the iteration: the unpacked folders are merged
ShMerge ==
    /\ sh_pc = "merge"
    /\ LET s == MergeCollection(TBody(sh_tree), sh_call[sh_idx], sh_root) IN
          /\ sh_tree' = s.tree
          /\ IF s.res = "Ok"
             THEN sh_idx' = sh_idx + 1 /\ sh_pc' = "loop" /\ UNCHANGED sh_result
             ELSE sh_pc' = "done" /\ sh_result' = s.res /\ UNCHANGED sh_idx
    /\ UNCHANGED <<sh_tree0, sh_call, sh_root, sh_pre, sh_syncs, dlVars, data_dir, fsVars, xVars>>

\* the loop is over: Ok(())
ShReturn ==
    /\ sh_pc = "loop"
    /\ sh_idx > Len(sh_call)
    /\ sh_pc' = "done"
    /\ sh_result' = "Ok"
    /\ UNCHANGED <<sh_tree0, sh_tree, sh_call, sh_idx, sh_root, sh_pre, sh_syncs, dlVars, data_dir, fsVars, xVars>>

ShNext == ShBegin \/ ShCollection \/ ShMerge \/ ShReturn

SpecShaders == ShInit /\ [][ShNext]_vars

DlInit ==
    /\ installer \in ByteStreams
    /\ archive \in (IF HasSig(installer) THEN Archives ELSE {NoZip})
    /\ vanilla \in BOOLEAN
    /\ dl_version \in {None, Some(<<"1", ".", "2", ".", "0">>)}
    /\ specific_installer \in BOOLEAN
    /\ dl_lookup = FALSE
    /\ data_dir0 \in DataDirs
    /\ data_dir = data_dir0
    /\ dl_pc = "start"
    /\ offset = 0
    /\ cursor = 0
    /\ scan = "pending"
    /\ dl_result = "none"
    /\ FsIdle
    /\ ShIdle
    /\ XIdle

DlReturn(res) ==
    /\ dl_pc' = "done"
    /\ dl_result' = res

\* the installer is the file given by specific_installer; or the URL is made by
\* get_latest_reshade_version, which asks for the tags when no version is
\* given, and the installer is downloaded to the temporary directory
DlObtainInstaller ==
    /\ dl_pc = "start"
    /\ IF specific_installer
       THEN /\ dl_pc' = "fetch_d3d"
            /\ UNCHANGED <<dl_result, dl_lookup>>
       ELSE /\ dl_lookup' = ~dl_version.some
            /\ \E outcome \in {"downloaded", "version_panic", "download_failed"} :
                  CASE outcome = "version_panic" /\ ~dl_version.some -> DlReturn("panic")
                    [] outcome = "download_failed" -> DlReturn("Download")
                    [] OTHER -> dl_pc' = "fetch_d3d" /\ UNCHANGED dl_result
    /\ UNCHANGED <<installer, archive, vanilla, dl_version, specific_installer, data_dir0,
                   data_dir, offset, cursor, scan, fsVars, shVars, xVars>>

\* download_file of d3dcompiler_47.dll to the temporary directory
DlFetchD3d ==
    /\ dl_pc = "fetch_d3d"
    /\ \E ok \in BOOLEAN :
          IF ok THEN dl_pc' = "open" /\ UNCHANGED dl_result
                ELSE DlReturn("Download")
    /\ UNCHANGED <<installer, archive, vanilla, dl_version, specific_installer, dl_lookup,
                   data_dir0, data_dir, offset, cursor, scan, fsVars, shVars, xVars>>

\* File::open(&reshade_path).expect(..): the downloaded installer was just
\* written and opens; the path given as specific_installer may name no file
DlOpenInstaller ==
    /\ dl_pc = "open"
    /\ \E present \in BOOLEAN :
          IF specific_installer /\ ~present
          THEN DlReturn("panic")
          ELSE dl_pc' = "scan" /\ UNCHANGED dl_result
    /\ UNCHANGED <<installer, archive, vanilla, dl_version, specific_installer, dl_lookup,
                   data_dir0, data_dir, offset, cursor, scan, fsVars, shVars, xVars>>

\* one iteration of the loop over the installer's bytes
DlScan ==
    /\ dl_pc = "scan"
    /\ LET s == ScanStep(installer, offset, cursor) IN
        /\ offset' = s.offset
        /\ cursor' = s.cursor
        /\ scan' = s.scan
        /\ CASE s.scan = "eof" -> DlReturn("Io")
             [] s.scan = "found" -> dl_pc' = "zip" /\ UNCHANGED dl_result
             [] OTHER -> UNCHANGED <<dl_pc, dl_result>>
    /\ UNCHANGED <<installer, archive, vanilla, dl_version, specific_installer, dl_lookup,
                   data_dir0, data_dir, fsVars, shVars, xVars>>

\* ZipArchive::new(exe), then the extraction into the data directory
DlExtract ==
    /\ dl_pc = "zip"
    /\ IF ~archive.valid
       THEN DlReturn("NoZipFile") /\ UNCHANGED data_dir
       ELSE LET x == ExtractReShade(archive, data_dir, vanilla) IN
            DlReturn(x.res) /\ data_dir' = x.dir
    /\ UNCHANGED <<installer, archive, vanilla, dl_version, specific_installer, dl_lookup,
                   data_dir0, offset, cursor, scan, fsVars, shVars, xVars>>

DlNext == DlObtainInstaller \/ DlFetchD3d \/ DlOpenInstaller \/ DlScan \/ DlExtract

SpecDownload == DlInit /\ [][DlNext]_vars

(***************************************************************************)
(* get_latest_reshade_version (lib.rs 264-318, main.rs 73-127)             *)
(* Strings are sequences of one-character strings.                         *)
(***************************************************************************)

Digits == <<"0", "1", "2", "3", "4", "5", "6", "7", "8", "9">>
IsDigit(c) == \E i \in 1..Len(Digits) : Digits[i] = c
DigitVal(c) == (CHOOSE i \in 1..Len(Digits) : Digits[i] = c) - 1

\* the characters of the modelled tags in ASCII order
Ascii == <<"-", ".">> \o Digits \o <<"a", "b", "c", "e", "r", "t", "v">>
CharOrd(c) == CHOOSE i \in 1..Len(Ascii) : Ascii[i] = c
IsLetter(c) == \E i \in 1..Len(Ascii) : Ascii[i] = c /\ i > 12

\* str::trim_start_matches(c): drops every leading c
RECURSIVE trim_start_matches(_, _)
trim_start_matches(str, c) ==
    IF str # <<>> /\ Head(str) = c THEN trim_start_matches(Tail(str), c) ELSE str

\* the position of the first c in str, 0 when there is none
Find(str, c) ==
    IF \E i \in 1..Len(str) : str[i] = c
    THEN CHOOSE i \in 1..Len(str) : str[i] = c /\ \A j \in 1..(i - 1) : str[j] # c
    ELSE 0

RECURSIVE Split(_, _)
Split(str, c) ==
    LET i == Find(str, c) IN
    IF i = 0 THEN <<str>>
    ELSE <<SubSeq(str, 1, i - 1)>> \o Split(SubSeq(str, i + 1, Len(str)), c)

\* a numeric identifier of semver: digits, no leading zero; -1 when invalid
RECURSIVE DecimalValue(_)
DecimalValue(str) ==
    IF str = <<>> THEN 0
    ELSE 10 * DecimalValue(SubSeq(str, 1, Len(str) - 1)) + DigitVal(str[Len(str)])

ParseNumeric(str) ==
    IF \/ str = <<>>
       \/ \E i \in 1..Len(str) : ~IsDigit(str[i])
       \/ Len(str) > 1 /\ str[1] = "0"
    THEN -1
    ELSE DecimalValue(str)

\* semver::Version::parse for MAJOR.MINOR.PATCH and MAJOR.MINOR.PATCH-PRE with
\* PRE one alphabetic identifier; any other text is an error
Version(ok, major, minor, patch, prerelease) ==
    [ok |-> ok, major |-> major, minor |-> minor, patch |-> patch, pre |-> prerelease]

ParseError == Version(FALSE, 0, 0, 0, <<>>)

Parse(str) ==
    LET dash == Find(str, "-")
        core == IF dash = 0 THEN str ELSE SubSeq(str, 1, dash - 1)
        prerelease == IF dash = 0 THEN <<>> ELSE SubSeq(str, dash + 1, Len(str))
        parts == Split(core, ".")
    IN  IF \/ Len(parts) # 3
           \/ \E i \in 1..Len(parts) : ParseNumeric(parts[i]) = -1
           \/ dash # 0 /\ prerelease = <<>>
           \/ \E i \in 1..Len(prerelease) : ~IsLetter(prerelease[i])
        THEN ParseError
        ELSE Version(TRUE, ParseNumeric(parts[1]), ParseNumeric(parts[2]),
                     ParseNumeric(parts[3]), prerelease)

\* ASCII order of two identifiers: -1, 0 or 1
RECURSIVE CmpStr(_, _)
CmpStr(a, b) ==
    CASE a = <<>> /\ b = <<>> -> 0
      [] a = <<>> -> -1
      [] b = <<>> -> 1
      [] CharOrd(Head(a)) < CharOrd(Head(b)) -> -1
      [] CharOrd(Head(a)) > CharOrd(Head(b)) -> 1
      [] OTHER -> CmpStr(Tail(a), Tail(b))

CmpInt(a, b) == IF a < b THEN -1 ELSE IF a > b THEN 1 ELSE 0

cmp_major(a, b) ==
    CmpInt(a.major, b.major)

\* Ord for semver::Version: major, minor, patch, then the pre-release, a
\* version without pre-release being the greater
cmp(a, b) ==
    CASE a.major # b.major -> CmpInt(a.major, b.major)
      [] a.minor # b.minor -> CmpInt(a.minor, b.minor)
      [] a.patch # b.patch -> CmpInt(a.patch, b.patch)
      [] a.pre = <<>> /\ b.pre = <<>> -> 0
      [] a.pre = <<>> -> 1
      [] b.pre = <<>> -> -1
      [] OTHER -> CmpStr(a.pre, b.pre)

\* slice::sort_by with the comparator of lines 289-293: a stable sort; x goes
\* behind every element that is not greater
RECURSIVE Insert(_, _)
Insert(sorted, x) ==
    IF sorted = <<>> THEN <<x>>
    ELSE IF cmp(Parse(sorted[Len(sorted)]), Parse(x)) <= 0
         THEN Append(sorted, x)
         ELSE Append(Insert(SubSeq(sorted, 1, Len(sorted) - 1), x), sorted[Len(sorted)])

RECURSIVE sort_by(_)
sort_by(tags) ==
    IF tags = <<>> THEN <<>>
    ELSE Insert(sort_by(SubSeq(tags, 1, Len(tags) - 1)), tags[Len(tags)])

\* the comparator unwraps both parses; sorting two or more elements compares
\* every element at least once, sorting fewer compares nothing
SortPanics(tags) ==
    Len(tags) >= 2 /\ \E i \in 1..Len(tags) : ~Parse(tags[i]).ok

Str_v1_2_0 == <<"v", "1", ".", "2", ".", "0">>
Str_1_2_0 == <<"1", ".", "2", ".", "0">>
Str_v1_9_0 == <<"v", "1", ".", "9", ".", "0">>
Str_v1_10_0 == <<"v", "1", ".", "1", "0", ".", "0">>
Str_v1_10_0_rc == <<"v", "1", ".", "1", "0", ".", "0", "-", "r", "c">>
Str_v1_10_0_beta == <<"v", "1", ".", "1", "0", ".", "0", "-", "b", "e", "t", "a">>
Str_v4_9 == <<"v", "4", ".", "9">>

\* the tag names the endpoint may list
TagNames == {Str_v1_2_0, Str_1_2_0, Str_v1_9_0, Str_v1_10_0, Str_v1_10_0_rc,
             Str_v1_10_0_beta, Str_v4_9}

Listings == UNION {[1..n -> TagNames] : n \in 0..MaxTags}

\* the values of the `version` argument
VersionArgs == {None, Some(Str_1_2_0), Some(Str_v4_9)}

Downloads ==
    IF crate = "lib" THEN <<"https://reshade.me/downloads/">>
    ELSE <<"http://static.reshade.me/downloads/">>

\* the format! of lines 308-316
SetupUrl(version, van) ==
    Downloads \o <<"ReShade_Setup_">> \o version
        \o (IF van THEN <<".exe">> ELSE <<"_Addon.exe">>)

VerReturn(res, url) ==
    /\ ver_pc' = "done"
    /\ ver_result' = [res |-> res, url |-> url]

VerInit ==
    /\ crate \in {"lib", "bin"}
    /\ game_dir = [g \in GamePaths |-> MissingDir]
    /\ data_dir = [n \in DataNames |-> Absent]
    /\ game_paths = <<>>
    /\ last = NoCall
    /\ pre = [game_dir |-> game_dir, data |-> data_dir, paths |-> game_paths]
    /\ repeated = FALSE
    /\ ver_version \in VersionArgs
    /\ ver_vanilla \in BOOLEAN
    /\ ver_listing = <<>>
    /\ ver_lookup = FALSE
    /\ ver_latest = <<>>
    /\ ver_pc = "start"
    /\ ver_result = NoReturn
    /\ TuiIdle
    /\ NetIdle
    /\ GitIdle
    /\ DlIdle
    /\ ShIdle

\* `if let Some(version) = version { version }`
VerExplicit ==
    /\ ver_pc = "start"
    /\ ver_version.some
    /\ ver_latest' = ver_version.val
    /\ ver_pc' = "format"
    /\ UNCHANGED <<ver_version, ver_vanilla, ver_listing, ver_lookup, ver_result>>
    /\ UNCHANGED <<dlVars, data_dir, fsVars, shVars, tuiVars, netVars, gitVars>>

\* the request to the tags endpoint and the decoding of its answer
VerFetchTags ==
    /\ ver_pc = "start"
    /\ ~ver_version.some
    /\ ver_lookup' = TRUE
    /\ \E answer \in {"send_failed", "invalid_json", "tags"} :
          IF answer = "tags"
          THEN /\ ver_listing' \in Listings
               /\ ver_pc' = "sort"
               /\ UNCHANGED ver_result
          ELSE /\ VerReturn("FetchLatestVersion", <<>>)
               /\ UNCHANGED ver_listing
    /\ UNCHANGED <<ver_version, ver_vanilla, ver_latest>>
    /\ UNCHANGED <<dlVars, data_dir, fsVars, shVars, tuiVars, netVars, gitVars>>

\* lines 285-300: strip the tags, sort them, take the last
VerSortTags ==
    /\ ver_pc = "sort"
    /\ LET tags == [i \in 1..Len(ver_listing) |-> trim_start_matches(ver_listing[i], "v")]
           sorted == sort_by(tags)
       IN  CASE SortPanics(tags) -> VerReturn("panic", <<>>) /\ UNCHANGED ver_latest
             [] sorted = <<>> ->
                    VerReturn("FetchLatestVersion", <<>>) /\ UNCHANGED ver_latest
             [] OTHER -> /\ ver_latest' = trim_start_matches(sorted[Len(sorted)], "v")
                         /\ ver_pc' = "format"
                         /\ UNCHANGED ver_result
    /\ UNCHANGED <<ver_version, ver_vanilla, ver_listing, ver_lookup>>
    /\ UNCHANGED <<dlVars, data_dir, fsVars, shVars, tuiVars, netVars, gitVars>>

VerFormat ==
    /\ ver_pc = "format"
    /\ VerReturn("Ok", SetupUrl(ver_latest, ver_vanilla))
    /\ UNCHANGED <<ver_version, ver_vanilla, ver_listing, ver_lookup, ver_latest>>
    /\ UNCHANGED <<dlVars, data_dir, fsVars, shVars, tuiVars, netVars, gitVars>>

VerNext == VerExplicit \/ VerFetchTags \/ VerSortTags \/ VerFormat

SpecVersion == VerInit /\ [][VerNext]_vars

(***************************************************************************)
(* main and the interactive session tui (main.rs 321-527)                  *)
(* The steps of an action are calls modelled above; here each step either  *)
(* succeeds or returns an error, and a prompt may be cancelled.            *)
(***************************************************************************)

\* the document toml::to_string makes of a Config, and toml::from_str of it
Serialize(paths) == [kind |-> "toml", game_paths |-> paths]
Deserialize(doc) == doc.game_paths
Garbage == [kind |-> "garbage", game_paths |-> <<>>]

\* what may be at config_dir/config.toml when the process starts
ConfigFiles == {NoFile, Garbage} \cup {Serialize(p) : p \in PathLists}

\* the two paths main has: config_dir, created as a directory by line 439, and
\* config_path = config_dir.join("config.toml")
IsDirectory(path) == path = "config_dir"

\* std::fs::write(path, toml::to_string(&config)): fails on a directory
WriteConfig(path, paths, file) ==
    IF IsDirectory(path) THEN [res |-> "Err", file |-> file]
    ELSE [res |-> "Ok", file |-> Serialize(paths)]

\* the path tui is given as its parameter config_path (main.rs 516-523)
TuiConfigPath == "config_dir"
\* the path main writes to after a subcommand (main.rs 514)
MainConfigPath == "config_path"

\* config.game_paths after install_reshade succeeded for game (main.rs 222-231)
PushGame(paths, game) == IF InSeq(game, paths) THEN paths ELSE Append(paths, game)

MainInit ==
    /\ crate = "bin"
    /\ game_dir = [g \in GamePaths |-> MissingDir]
    /\ data_dir = [n \in DataNames |-> Absent]
    /\ game_paths = <<>>
    /\ last = NoCall
    /\ pre = [game_dir |-> game_dir, data |-> data_dir, paths |-> game_paths]
    /\ repeated = FALSE
    /\ tui_pc = "start"
    /\ tui_last = NoStep
    /\ config_file \in ConfigFiles
    /\ DlIdle
    /\ ShIdle
    /\ VerIdle
    /\ NetIdle
    /\ GitIdle

tuiFrame == <<crate, game_dir, data_dir, last, pre, repeated, dlVars, shVars, verVars,
              netVars, gitVars>>

\* the process ends at `site` with the result res
Exit(option, failed, site, res) ==
    /\ tui_pc' = "exited"
    /\ tui_last' = [option |-> option, failed |-> failed, shown |-> FALSE,
                    exit |-> site, res |-> res]

\* `continue`, or the end of the loop body: back to the Select prompt
BackToMenu(option, failed, shown) ==
    /\ tui_pc' = "menu"
    /\ tui_last' = [option |-> option, failed |-> failed, shown |-> shown,
                    exit |-> "none", res |-> "none"]

\* main.rs 445-465: the config is read, or the default one is written; then
\* the arguments choose a subcommand or the interactive session
MainStart ==
    /\ tui_pc = "start"
    /\ CASE config_file.kind = "garbage" ->
                /\ Exit("none", "toml::from_str", "exit(1)", "Err")
                /\ UNCHANGED <<game_paths, config_file>>
         [] config_file.kind = "toml" ->
                /\ game_paths' = Deserialize(config_file)
                /\ \E subcommand \in BOOLEAN :
                      tui_pc' = IF subcommand THEN "cli" ELSE "menu"
                /\ UNCHANGED <<tui_last, config_file>>
         [] OTHER ->
                /\ game_paths' = <<>>
                /\ config_file' = WriteConfig(MainConfigPath, <<>>, config_file).file
                /\ \E subcommand \in BOOLEAN :
                      tui_pc' = IF subcommand THEN "cli" ELSE "menu"
                /\ UNCHANGED tui_last
    /\ UNCHANGED tuiFrame

\* main.rs 512-514: the write after a subcommand
CliSave(option, paths) ==
    LET w == WriteConfig(MainConfigPath, paths, config_file) IN
    /\ config_file' = w.file
    /\ game_paths' = paths
    /\ Exit(option, "none", "main", w.res)

CliFailed(option, failed) ==
    /\ Exit(option, failed, failed, "Err")
    /\ UNCHANGED <<game_paths, config_file>>

\* main.rs 469-481
CliInstallReshade ==
    /\ tui_pc = "cli"
    /\ \E failed \in {"none", "download_reshade", "install_reshade"},
          game \in GamePaths \cup {"none"} :
          /\ failed = "install_reshade" => game # "none"
          /\ IF failed # "none" THEN CliFailed("InstallReshade", failed)
             ELSE CliSave("InstallReshade",
                          IF game = "none" THEN game_paths ELSE PushGame(game_paths, game))
    /\ UNCHANGED tuiFrame

\* main.rs 482-504
CliInstallPresets ==
    /\ tui_pc = "cli"
    /\ \E failed \in {"none", "install_presets", "install_preset_for_game"} :
          IF failed # "none" THEN CliFailed("InstallPresets", failed)
          ELSE CliSave("InstallPresets", game_paths)
    /\ UNCHANGED tuiFrame

\* main.rs 506-509
CliUninstall ==
    /\ tui_pc = "cli"
    /\ \E failed \in {"none", "uninstall"}, game \in GamePaths :
          IF failed # "none" THEN CliFailed("Uninstall", failed)
          ELSE CliSave("Uninstall", Retain(game_paths, game))
    /\ UNCHANGED tuiFrame

\* main.rs 412-419: the end of the loop body for the result of the match
TuiResult(option, failed, paths) ==
    IF failed # "none"
    THEN /\ BackToMenu(option, failed, TRUE)
         /\ UNCHANGED <<game_paths, config_file>>
    ELSE LET w == WriteConfig(TuiConfigPath, paths, config_file) IN
         /\ config_file' = w.file
         /\ game_paths' = paths
         /\ IF w.res = "Ok" THEN BackToMenu(option, "none", FALSE)
            ELSE Exit(option, "std::fs::write", "write_config", "Err")

\* a step followed by `?`: its error leaves tui
TuiPropagated(option, failed) ==
    /\ Exit(option, failed, failed, "Err")
    /\ UNCHANGED <<game_paths, config_file>>

\* main.rs 329-330: the Select prompt is cancelled or fails
TuiSelectFailed ==
    /\ tui_pc = "menu"
    /\ TuiPropagated("none", "Select")
    /\ UNCHANGED tuiFrame

\* main.rs 333-352: InstallOption::ReShade and InstallOption::ReShadeVanilla
TuiReShade ==
    /\ tui_pc = "menu"
    /\ \E option \in {"ReShade", "ReShadeVanilla"}, install_now \in BOOLEAN,
          game \in GamePaths,
          failed \in {"none", "download_reshade", "prompt_install", "prompt_game_path",
                      "install_reshade"} :
          /\ ~install_now => failed \notin {"prompt_game_path", "install_reshade"}
          /\ IF failed \in {"download_reshade", "prompt_install", "prompt_game_path"}
             THEN TuiPropagated(option, failed)
             ELSE TuiResult(option, failed,
                            IF install_now THEN PushGame(game_paths, game) ELSE game_paths)
    /\ UNCHANGED tuiFrame

\* main.rs 353-398: InstallOption::Presets
TuiPresets ==
    /\ tui_pc = "menu"
    /\ \E done \in BOOLEAN, install_for_games \in BOOLEAN,
          failed \in {"none", "prompt_open_links", "prompt_confirm_move", "install_presets",
                      "prompt_install_presets_for_games", "prompt_select_game_paths",
                      "install_preset_for_game"} :
          LET last_step ==
                  CASE ~done -> "prompt_confirm_move"
                    [] game_paths = <<>> -> "install_presets"
                    [] ~install_for_games -> "prompt_install_presets_for_games"
                    [] OTHER -> "install_preset_for_game"
              order == <<"prompt_open_links", "prompt_confirm_move", "install_presets",
                         "prompt_install_presets_for_games", "prompt_select_game_paths",
                         "install_preset_for_game">>
              pos(step) == CHOOSE i \in 1..Len(order) : order[i] = step
          IN  /\ failed # "none" => pos(failed) <= pos(last_step)
              /\ CASE failed # "none" -> TuiPropagated("Presets", failed)
                   [] last_step # "install_preset_for_game" ->
                          /\ BackToMenu("Presets", "none", FALSE)
                          /\ UNCHANGED <<game_paths, config_file>>
                   [] OTHER -> TuiResult("Presets", "none", game_paths)
    /\ UNCHANGED tuiFrame

\* main.rs 399-409: InstallOption::Uninstall
TuiUninstall ==
    /\ tui_pc = "menu"
    /\ IF game_paths = <<>>
       THEN /\ Exit("Uninstall", "none", "no_game_paths", "Ok")
            /\ UNCHANGED <<game_paths, config_file>>
       ELSE \E i \in 1..Len(game_paths),
               failed \in {"none", "prompt_select_game_path_uninstall", "uninstall"} :
               IF failed # "none" THEN TuiPropagated("Uninstall", failed)
               ELSE TuiResult("Uninstall", "none", Retain(game_paths, game_paths[i]))
    /\ UNCHANGED tuiFrame

\* main.rs 410: InstallOption::Quit
TuiQuit ==
    /\ tui_pc = "menu"
    /\ Exit("Quit", "none", "break", "Ok")
    /\ UNCHANGED <<game_paths, config_file>>
    /\ UNCHANGED tuiFrame

MainNext ==
    \/ MainStart
    \/ CliInstallReshade
    \/ CliInstallPresets
    \/ CliUninstall
    \/ TuiSelectFailed
    \/ TuiReShade
    \/ TuiPresets
    \/ TuiUninstall
    \/ TuiQuit

SpecMain == MainInit /\ [][MainNext]_vars

(***************************************************************************)
(* download_file (lib.rs 164-181, main.rs 54-71)                           *)
(***************************************************************************)

Urls == {"https://reshade.me/downloads/ReShade_Setup.exe",
         "https://lutris.net/files/tools/dll/d3dcompiler_47.dll"}

\* the status codes a server answers with, and the bodies it sends
StatusCodes == {200, 404, 500}
IsSuccess(status) == status >= 200 /\ status < 300
Bodies == {"payload", "error page"}

\* the destination path: whether a file can be created there, and its content
Destinations == [creatable : BOOLEAN, content : {Absent, "old"}]

NetReturn(res, url) ==
    /\ net_pc' = "done"
    /\ net_result' = [res |-> res, url |-> url]

NetInit ==
    /\ crate \in {"lib", "bin"}
    /\ game_dir = [g \in GamePaths |-> MissingDir]
    /\ data_dir = [n \in DataNames |-> Absent]
    /\ game_paths = <<>>
    /\ last = NoCall
    /\ pre = [game_dir |-> game_dir, data |-> data_dir, paths |-> game_paths]
    /\ repeated = FALSE
    /\ net_pc = "send"
    /\ net_url \in Urls
    /\ net_status = 0
    /\ net_body = ""
    /\ net_dest \in Destinations
    /\ net_result = [res |-> "none", url |-> ""]
    /\ DlIdle
    /\ ShIdle
    /\ VerIdle
    /\ TuiIdle
    /\ GitIdle

netFrame == <<dlVars, data_dir, fsVars, shVars, verVars, tuiVars, gitVars>>

\* client.get(url).send(): a transport error, or a response of any status
NetSend ==
    /\ net_pc = "send"
    /\ \E sent \in BOOLEAN :
          IF sent
          THEN /\ net_status' \in StatusCodes
               /\ net_pc' = "bytes"
               /\ UNCHANGED net_result
          ELSE /\ NetReturn("Download", net_url)
               /\ UNCHANGED net_status
    /\ UNCHANGED <<net_url, net_body, net_dest, netFrame>>

\* .bytes(): the body of the response, or an error while reading it
NetBytes ==
    /\ net_pc = "bytes"
    /\ \E read \in BOOLEAN :
          IF read
          THEN /\ net_body' \in Bodies
               /\ net_pc' = "create"
               /\ UNCHANGED net_result
          ELSE /\ NetReturn("Download", net_url)
               /\ UNCHANGED net_body
    /\ UNCHANGED <<net_url, net_status, net_dest, netFrame>>

\* tokio::fs::File::create(path).await?: creates or truncates the file
NetCreate ==
    /\ net_pc = "create"
    /\ IF net_dest.creatable
       THEN /\ net_dest' = [net_dest EXCEPT !.content = ""]
            /\ net_pc' = "copy"
            /\ UNCHANGED net_result
       ELSE /\ NetReturn("Io", "")
            /\ UNCHANGED net_dest
    /\ UNCHANGED <<net_url, net_status, net_body, netFrame>>

\* tokio::io::copy(&mut reader, &mut out).await?
NetCopy ==
    /\ net_pc = "copy"
    /\ \E written \in BOOLEAN :
          IF written
          THEN /\ net_dest' = [net_dest EXCEPT !.content = net_body]
               /\ NetReturn("Ok", "")
          ELSE /\ NetReturn("Io", "")
               /\ UNCHANGED net_dest
    /\ UNCHANGED <<net_url, net_status, net_body, netFrame>>

NetNext == NetSend \/ NetBytes \/ NetCreate \/ NetCopy

SpecFetch == NetInit /\ [][NetNext]_vars

(***************************************************************************)
(* git::pull (lib/git.rs 5-77)                                             *)
(* The repository is modelled by its branches, its HEAD and a small commit *)
(* graph; lookups of objects that exist succeed, while opening the         *)
(* repository and fetching may fail.                                       *)
(***************************************************************************)

\* the commits of the history: c1 and c2 are children of c0, c3 of c1; "merge"
\* is the commit pull may create
Commits == {"c0", "c1", "c2", "c3"}
Parents(c) ==
    CASE c = "c1" -> {"c0"}
      [] c = "c2" -> {"c0"}
      [] c = "c3" -> {"c1"}
      [] OTHER -> {}

RECURSIVE Ancestors(_)
Ancestors(c) == {c} \cup UNION {Ancestors(p) : p \in Parents(c)}

\* Repository::merge_analysis of the fetched commit against HEAD
merge_analysis(local, remote) ==
    CASE remote \in Ancestors(local) -> "up_to_date"
      [] local \in Ancestors(remote) -> "fast_forward"
      [] OTHER -> "normal"

Branches == {"main", "dev"}
RepositoryName == "reshade-shaders"

\* the local branches: HEAD is on main; dev may not exist
LocalRefs == {r \in [Branches -> {"c0", "c1", Absent}] : r["main"] # Absent}
\* the branches of origin
RemoteRefs == [Branches -> Commits \cup {Absent}]

NoMerge == [made |-> FALSE, parents |-> <<>>]
GitNoReturn == [res |-> "none", branch |-> "", name |-> ""]

GitReturn(res, branch, name) ==
    /\ git_pc' = "done"
    /\ git_result' = [res |-> res, branch |-> branch, name |-> name]

\* the refspec of lines 14-20: the branch given, or the shorthand of HEAD
Refspec == IF git_branch.some THEN git_branch.val[1] ELSE git_repo.head

GitInit ==
    /\ crate = "lib"
    /\ game_dir = [g \in GamePaths |-> MissingDir]
    /\ data_dir = [n \in DataNames |-> Absent]
    /\ game_paths = <<>>
    /\ last = NoCall
    /\ pre = [game_dir |-> game_dir, data |-> data_dir, paths |-> game_paths]
    /\ repeated = FALSE
    /\ git_path \in {"missing", "directory", "repository"}
    /\ git_branch \in {None} \cup {Some(<<b>>) : b \in Branches}
    /\ git_repo \in [head : {"main"}, refs : LocalRefs, merge : {NoMerge},
                    worktree : {"HEAD"}]
    /\ git_repo0 = git_repo
    /\ git_remote \in RemoteRefs
    /\ git_conflicting \in BOOLEAN
    /\ git_fetch_head = Absent
    /\ git_ops = <<>>
    /\ git_pc = "start"
    /\ git_result = GitNoReturn
    /\ DlIdle
    /\ ShIdle
    /\ VerIdle
    /\ TuiIdle
    /\ NetIdle

gitFrame == <<dlVars, data_dir, fsVars, shVars, verVars, tuiVars, netVars>>

\* lines 6-11: the existence test, Repository::open, find_remote
PullOpen ==
    /\ git_pc = "start"
    /\ CASE git_path = "missing" ->
                /\ GitReturn("RepositoryNotFound", "", RepositoryName)
                /\ UNCHANGED git_ops
         [] git_path = "directory" ->
                /\ GitReturn("Git", "", "")
                /\ git_ops' = Append(git_ops, "open")
         [] OTHER ->
                /\ git_pc' = "fetch"
                /\ git_ops' = git_ops \o <<"open", "find_remote">>
                /\ UNCHANGED git_result
    /\ UNCHANGED <<git_path, git_branch, git_repo, git_repo0, git_remote, git_conflicting,
                   git_fetch_head, gitFrame>>

\* lines 14-24: the refspec is fetched from origin and FETCH_HEAD is read
PullFetch ==
    /\ git_pc = "fetch"
    /\ git_ops' = Append(git_ops, "fetch")
    /\ \E connected \in BOOLEAN :
          IF connected /\ git_remote[Refspec] # Absent
          THEN /\ git_fetch_head' = git_remote[Refspec]
               /\ git_pc' = "analysis"
               /\ UNCHANGED git_result
          ELSE /\ GitReturn("Git", "", "")
               /\ UNCHANGED git_fetch_head
    /\ UNCHANGED <<git_path, git_branch, git_repo, git_repo0, git_remote, git_conflicting,
                   gitFrame>>

\* lines 26-45: merge_analysis, and the fast-forward of refs/heads/<refspec>
PullFastForward ==
    /\ git_pc = "analysis"
    /\ merge_analysis(git_repo.refs[git_repo.head], git_fetch_head) = "fast_forward"
    /\ git_ops' = git_ops \o <<"merge_analysis", "find_reference">>
    /\ IF git_repo.refs[Refspec] = Absent
       THEN /\ GitReturn("BranchNotFound", Refspec, RepositoryName)
            /\ UNCHANGED git_repo
       ELSE /\ git_repo' = [git_repo EXCEPT !.refs[Refspec] = git_fetch_head,
                                            !.head = Refspec]
            /\ GitReturn("Ok", "", "")
    /\ UNCHANGED <<git_path, git_branch, git_repo0, git_remote, git_conflicting,
                   git_fetch_head, gitFrame>>

\* the merge commit of lines 59-72: HEAD's branch moves to a commit whose parents
\* are the local and the fetched commit
Commit(local, remote) ==
    [git_repo EXCEPT !.merge = [made |-> TRUE, parents |-> <<local, remote>>],
                     !.refs[git_repo.head] = "merge"]

PullMerge_commitAnyway ==
    /\ git_pc = "analysis"
    /\ merge_analysis(git_repo.refs[git_repo.head], git_fetch_head) = "normal"
    /\ git_ops' = git_ops \o <<"merge_analysis", "merge_trees">>
    /\ \E configured \in BOOLEAN :
          CASE git_conflicting ->
                   /\ git_repo' = Commit(git_repo.refs[git_repo.head], git_fetch_head)
                   /\ GitReturn("MergeConflict", Refspec, RepositoryName)
            [] ~git_conflicting /\ ~configured ->
                   /\ GitReturn("Git", "", "")
                   /\ UNCHANGED git_repo
            [] OTHER ->
                   /\ git_repo' = Commit(git_repo.refs[git_repo.head], git_fetch_head)
                   /\ GitReturn("Ok", "", "")
    /\ UNCHANGED <<git_path, git_branch, git_repo0, git_remote, git_conflicting,
                   git_fetch_head, gitFrame>>

\* lines 46-74: the three-way merge of a normal analysis.  With conflicts the
\* index is checked out into the (clean) working tree and MergeConflict is
\* returned; without, the commit needs the signature of the configuration
\* (line 60), which `?` turns into a Git error when no user is configured.
PullMerge ==
    /\ git_pc = "analysis"
    /\ merge_analysis(git_repo.refs[git_repo.head], git_fetch_head) = "normal"
    /\ git_ops' = git_ops \o <<"merge_analysis", "merge_trees">>
    /\ \E configured \in BOOLEAN :
          CASE git_conflicting ->
                   /\ git_repo' = [git_repo EXCEPT !.worktree = "conflicted index"]
                   /\ GitReturn("MergeConflict", Refspec, RepositoryName)
            [] ~git_conflicting /\ ~configured ->
                   /\ GitReturn("Git", "", "")
                   /\ UNCHANGED git_repo
            [] OTHER ->
                   /\ git_repo' = Commit(git_repo.refs[git_repo.head], git_fetch_head)
                   /\ GitReturn("Ok", "", "")
    /\ UNCHANGED <<git_path, git_branch, git_repo0, git_remote, git_conflicting,
                   git_fetch_head, gitFrame>>

\* neither branch of lines 27 and 46 is taken: Ok(())
PullUpToDate ==
    /\ git_pc = "analysis"
    /\ merge_analysis(git_repo.refs[git_repo.head], git_fetch_head) = "up_to_date"
    /\ git_ops' = Append(git_ops, "merge_analysis")
    /\ GitReturn("Ok", "", "")
    /\ UNCHANGED <<git_path, git_branch, git_repo, git_repo0, git_remote, git_conflicting,
                   git_fetch_head, gitFrame>>

PullNext == PullOpen \/ PullFetch \/ PullFastForward \/ PullMerge \/ PullUpToDate

SpecPull == GitInit /\ [][PullNext]_vars

(***************************************************************************)
(* The claims                                                              *)
(***************************************************************************)

\* C1: when the signature 50 4B 03 04 first occurs at offset k of the installer,
\* the scan of download_reshade never passes k, does not run into end of file,
\* and stops with offset = k.
ScanFindsFirstSignature ==
    HasSig(installer) =>
        /\ offset <= FirstSig(installer)
        /\ scan # "eof"
        /\ scan = "found" => offset = FirstSig(installer)

\* the signature was found at offset 1, after a first byte that begins like it
ScanFoundAtOffsetOne ==
    scan = "found" /\ offset = 1 /\ installer[1] = 80 /\ Len(installer) = 5

\* C2: when the installer never contains the signature, the scan ends at end of
\* file and download_reshade fails with ReShaderError::NoZipFile.
ScanEofIsNoZipFile ==
    (scan = "eof" /\ ~HasSig(installer)) => dl_result = "NoZipFile"

\* C3: when the archive opens without an entry ReShade64.dll, download_reshade
\* fails with NoReShade64Dll and the data directory is as before the call; when
\* it returns Ok, the variant-named file holds the entry's content.
ExtractionAllOrNothing ==
    /\ (dl_pc = "done" /\ scan = "found" /\ archive.valid
            /\ archive.entries["ReShade64.dll"] = Absent)
        => (dl_result = "NoReShade64Dll" /\ data_dir = data_dir0)
    /\ dl_result = "Ok"
        => /\ archive.entries["ReShade64.dll"] # Absent
           /\ data_dir[VariantFile(vanilla)] = archive.entries["ReShade64.dll"]

\* the archive held ReShade32.dll only, and the data directory held files
ExtractionRefused ==
    /\ dl_result = "NoReShade64Dll"
    /\ archive.entries["ReShade32.dll"] # Absent
    /\ data_dir0["d3dcompiler_47.dll"] = "old"

\* the game directory of the last call, now and before the call
Now(n) == game_dir[last.game].entries[n]
Before(n) == pre.game_dir[last.game].entries[n]

\* C4: a second install_reshade with the same data directory, game directory
\* and variant, right after a successful one, returns no error and leaves
\* dxgi.dll and d3dcompiler_47.dll the symlinks they were, whatever the data
\* directory holds.
InstallTwiceIdempotent ==
    (last.op = "install_reshade" /\ repeated) =>
        /\ last.res = "Ok"
        /\ \A n \in {"dxgi.dll", "d3dcompiler_47.dll"} :
              Now(n).kind = "link" /\ Now(n) = Before(n)

\* C5 as claimed: with dxgi.dll a plain file, install_reshade fails with a
\* symlink conflict and leaves the file as it was.
PlainLoaderConflict ==
    (last.op = "install_reshade" /\ Before("dxgi.dll").kind = "file") =>
        /\ last.res = "Symlink"
        /\ Now("dxgi.dll") = Before("dxgi.dll")

\* C5 as amended: with dxgi.dll a plain file, install_reshade never fails with
\* a symlink conflict, and when it returns Ok the plain file is gone and
\* dxgi.dll is a symlink to the library of the requested variant.
PlainLoaderReplaced ==
    (last.op = "install_reshade" /\ Before("dxgi.dll").kind = "file") =>
        /\ last.res # "Symlink"
        /\ last.res = "Ok" => Now("dxgi.dll") = LinkEntry(VariantFile(last.vanilla))

\* install_reshade succeeded over a plain dxgi.dll
PlainLoaderWasReplaced ==
    /\ last.op = "install_reshade"
    /\ last.res = "Ok"
    /\ Before("dxgi.dll") = FileEntry("user")
    /\ Now("dxgi.dll").kind = "link"

\* the names the crate's install functions create in a game directory
InstalledNames ==
    IF crate = "lib"
    THEN {"dxgi.dll", "d3dcompiler_47.dll", "reshade-shaders", "gshade-presets",
          "gshade-shaders"}
    ELSE {"dxgi.dll", "d3dcompiler_47.dll", "reshade-presets", "reshade-shaders"}

\* C6: after a successful uninstall of a game directory with all assets
\* installed, the directory has no entry of any asset name and the game path
\* is not in the managed-game list.
UninstallRemovesAllAssets ==
    (/\ last.op = "uninstall"
     /\ last.res = "Ok"
     /\ \A n \in InstalledNames : Before(n).kind # "absent") =>
        /\ \A n \in AssetNames : Now(n).kind = "absent"
        /\ ~InSeq(last.game, game_paths)

\* C7: uninstall of a game directory with no entry of any asset name returns
\* Ok and changes no game directory and nothing in the data directory, and
\* the managed-game list keeps every other path, in order.
UninstallNothingNoEffect ==
    (last.op = "uninstall" /\ \A n \in AssetNames : Before(n).kind = "absent") =>
        /\ last.res = "Ok"
        /\ game_dir = pre.game_dir
        /\ data_dir = pre.data
        /\ game_paths = Retain(pre.paths, last.game)

\* uninstall of a directory holding only ReShade.ini, with another game managed
UninstalledNothing ==
    /\ last.op = "uninstall"
    /\ \A n \in AssetNames : Before(n).kind = "absent"
    /\ Before("ReShade.ini").kind = "file"
    /\ Len(pre.paths) = 2
    /\ Len(game_paths) = 1

\* the files an archive holds below <root>/Shaders or <root>/Textures, their
\* paths relative to that folder, and the install path the folder is merged to
SourceFiles(c, sub) ==
    IF Len(c.zip) = 0 THEN {}
    ELSE {i \in 1..Len(c.zip) :
            ~c.zip[i].dir /\ IsPrefix(c.zip[1].path \o <<sub>>, c.zip[i].path)}
RelPath(c, sub, i) == Rel(c.zip[i].path, c.zip[1].path \o <<sub>>)
Target(c, sub) == IF sub = "Shaders" THEN c.install_path ELSE c.texture_install_path

HasCounterpart(p) ==
    \E k \in 1..Len(sh_call) : \E j \in 1..Len(sh_call) :
        /\ k < sh_idx
        /\ j < sh_idx
        /\ \E sub \in {"Shaders", "Textures"} : \E dst \in {"Shaders", "Textures"} :
              \E i \in SourceFiles(sh_call[k], sub) :
                  p = Target(sh_call[j], dst) \o RelPath(sh_call[k], sub, i)

\* C9: every file that was below Merged when download_shader_collections was
\* called is still there, and with its content unless a collection merged by
\* the call holds a file at the same relative path; no file that was below
\* Merged before the first call is ever removed.
MergeNonDestructive ==
    /\ \A p \in DOMAIN sh_pre.files : IsPrefix(<<"Merged">>, p) =>
          /\ p \in DOMAIN sh_tree.files
          /\ ~HasCounterpart(p) => sh_tree.files[p] = sh_pre.files[p]
    /\ \A p \in DOMAIN sh_tree0.files : IsPrefix(<<"Merged">>, p) =>
          p \in DOMAIN sh_tree.files

\* after a second sync the user's own shader is intact and a.fx was replaced
OwnFilesSurvivedSyncs ==
    /\ sh_syncs = 2
    /\ sh_pc = "done"
    /\ sh_result = "Ok"
    /\ sh_tree0 = UsedTree
    /\ sh_tree.files[MergedShaders \o <<"mine.fx">>] = "old:mine.fx"
    /\ sh_tree.files[MergedShaders \o <<"a.fx">>] # "old:a.fx"
    /\ sh_pre.files[MergedShaders \o <<"a.fx">>] # "old:a.fx"

\* C10: the managed-game list never holds a path twice; a call changes it only
\* at the path it was given, keeping the order of the others; install_reshade
\* into a listed path leaves the list as it was.
ManagedGamesUnique ==
    /\ NoDuplicates(game_paths)
    /\ last.op # "none" => Retain(game_paths, last.game) = Retain(pre.paths, last.game)
    /\ (last.op = "install_reshade" /\ InSeq(last.game, pre.paths)) =>
          game_paths = pre.paths

\* install_reshade succeeded for a game that was already first of two managed
InstalledListedGame ==
    /\ last.op = "install_reshade"
    /\ last.res = "Ok"
    /\ Len(pre.paths) = 2
    /\ pre.paths[1] = last.game

\* the listed tag names without their leading v
Stripped == [i \in 1..Len(ver_listing) |-> trim_start_matches(ver_listing[i], "v")]
Greatest(i) ==
    \A j \in 1..Len(ver_listing) :
        Parse(Stripped[j]).ok => cmp(Parse(Stripped[j]), Parse(Stripped[i])) <= 0
UrlOf(version) ==
    Downloads \o <<"ReShade_Setup_">> \o version
        \o <<IF ver_vanilla THEN ".exe" ELSE "_Addon.exe">>

\* C11: without an explicit version, a URL that get_latest_reshade_version
\* returns is the one of the greatest listed tag under semantic-version order,
\* leading v stripped, wherever in the listing that tag is, and a non-empty
\* listing of semantic versions always yields one; the URL ends in _Addon.exe
\* unless vanilla; an explicit version is interpolated as given and no request
\* for the tags is sent.
LatestVersionSelected ==
    /\ (ver_pc = "done" /\ ~ver_version.some /\ ver_result.res = "Ok") =>
          /\ \E i \in 1..Len(ver_listing) : Greatest(i)
          /\ \A i \in 1..Len(ver_listing) :
                Greatest(i) => ver_result.url = UrlOf(Stripped[i])
    /\ (/\ ver_pc = "done"
        /\ ver_lookup
        /\ ver_listing # <<>>
        /\ \A i \in 1..Len(ver_listing) : Parse(Stripped[i]).ok) =>
          ver_result.res = "Ok"
    /\ ver_version.some =>
          /\ ~ver_lookup
          /\ ver_pc = "done" =>
                ver_result = [res |-> "Ok", url |-> UrlOf(ver_version.val)]

\* 1.10.0 was selected from a listing that has it first, before its release
\* candidate and 1.9.0
GreatestTagWasFirst ==
    /\ ver_pc = "done"
    /\ ver_result.res = "Ok"
    /\ ~ver_vanilla
    /\ ver_listing = <<Str_v1_10_0, Str_v1_10_0_rc, Str_v1_9_0>>

\* C12: with reshade-shaders a real directory or a plain file,
\* install_reshade_shaders fails with the Symlink error and leaves every game
\* directory and the data directory as they were.
ShadersConflictRefused ==
    (/\ last.op = "install_reshade_shaders"
     /\ Before("reshade-shaders").kind \in {"file", "dir"}) =>
        /\ last.res = "Symlink"
        /\ game_dir = pre.game_dir
        /\ data_dir = pre.data

\* install_reshade_shaders was refused over a real directory
ShadersDirectoryKept ==
    /\ last.op = "install_reshade_shaders"
    /\ last.res = "Symlink"
    /\ Before("reshade-shaders") = DirEntry("user")
    /\ Now("reshade-shaders") = DirEntry("user")

\* C13: with reshade-shaders already a symlink, its target existing or not,
\* install_reshade_shaders returns Ok and changes nothing; a call that repeats
\* a successful one returns Ok.
ShadersLinkedIsNoOp ==
    /\ (last.op = "install_reshade_shaders" /\ Before("reshade-shaders").kind = "link") =>
          /\ last.res = "Ok"
          /\ game_dir = pre.game_dir
          /\ data_dir = pre.data
    /\ (last.op = "install_reshade_shaders" /\ repeated) => last.res = "Ok"

\* the two names install_preset_for_game links in the game directory
PresetNames ==
    IF crate = "lib" THEN {"gshade-presets", "gshade-shaders"}
    ELSE {"reshade-presets", "reshade-shaders"}

\* C14: when one of its two target names is a real directory or a plain file,
\* install_preset_for_game fails with the Symlink error and creates no symlink
\* in the game directory.
PresetConflictRefused ==
    (/\ last.op = "install_preset_for_game"
     /\ \E n \in PresetNames : Before(n).kind \in {"file", "dir"}) =>
        /\ last.res = "Symlink"
        /\ \A n \in GameNames : Now(n).kind = "link" => Before(n).kind = "link"

\* the selections of the main menu, and the steps of the actions they start
MenuOptions == {"ReShade", "ReShadeVanilla", "Presets", "Uninstall", "Quit"}
ActionSteps == {"download_reshade", "install_reshade", "install_presets",
                "install_preset_for_game", "uninstall"}

\* C15: in the interactive session, when a step of the selected action returned
\* an error, the error was displayed and the session is at the main menu again.
ActionErrorsReturnToMenu ==
    (tui_last.option \in MenuOptions /\ tui_last.failed \in ActionSteps) =>
        tui_last.shown /\ tui_pc = "menu"

\* C16: the interactive session ends only after the selection Quit.
OnlyQuitTerminates ==
    (tui_pc = "exited" /\ tui_last.option \in MenuOptions) => tui_last.option = "Quit"

\* C17: after an action, interactive or of a subcommand, whenever the session is
\* at the main menu or the process has exited, config.toml holds the managed-game
\* list that is in memory.
ConfigPersisted ==
    (tui_pc \in {"menu", "exited"} /\ tui_last.option # "none") =>
        config_file = Serialize(game_paths)

\* C18: download_file returns Download with the URL when the request fails,
\* when the response has a status that is not a success, and when the
\* destination cannot be written; it never returns Ok for a response that is
\* not a success, with the body of that response in the destination.
DownloadFailuresReported ==
    net_pc = "done" =>
        /\ net_result.res \in {"Ok", "Download"}
        /\ net_result.res = "Download" => net_result.url = net_url
        /\ (net_status # 0 /\ ~IsSuccess(net_status)) => net_result.res = "Download"

\* C19: with a specific installer, what download_reshade leaves in the data
\* directory is what it leaves for any other value of vanilla and version,
\* and the tags endpoint is not asked.
SpecificInstallerIgnoresArguments ==
    (specific_installer /\ dl_result = "Ok") =>
        /\ data_dir = ExtractReShade(archive, data_dir0, FALSE).dir
        /\ ~dl_lookup

\* the top-level names of an archive, and whether they are one directory
TopLevel(zip) == {zip[i].path[1] : i \in 1..Len(zip)}
HasRootDirectory(zip) ==
    /\ Cardinality(TopLevel(zip)) = 1
    /\ \E i \in 1..Len(zip) : zip[i].dir \/ Len(zip[i].path) > 1

\* C20: when unpack returns, the name it returns is the archive's single
\* top-level directory if there is one and <name>.zip otherwise, and a
\* directory of that name exists in the target directory; unpack of an archive
\* without entries does not fail.
UnpackReturnsRootDirectory ==
    /\ sh_pc = "merge" =>
          LET c == sh_call[sh_idx] IN
          /\ ZipDirectory \o sh_root \in sh_tree.dirs
          /\ sh_root = IF HasRootDirectory(c.zip)
                       THEN <<CHOOSE n \in TopLevel(c.zip) : TRUE>>
                       ELSE <<c.name \o ".zip">>
    /\ (sh_pc = "done" /\ sh_idx <= Len(sh_call) /\ sh_call[sh_idx].zip = <<>>) =>
          sh_result = "Download"

\* C21: when the scan has found the signature and the reader is handed to
\* ZipArchive::new, the reader is positioned at the offset of the signature.
ReaderAtSignatureStart ==
    (dl_pc = "zip" /\ scan = "found") => cursor = offset

\* C22: after a successful install_reshade dxgi.dll is a symlink to the library
\* of the requested variant and d3dcompiler_47.dll a symlink to the copy in the
\* data directory, whatever was at those names before, and the data directory
\* is as it was before the call.
InstallReplacesLoader ==
    (last.op = "install_reshade" /\ last.res = "Ok") =>
        /\ Now("dxgi.dll") = LinkEntry(VariantFile(last.vanilla))
        /\ Now("d3dcompiler_47.dll") = LinkEntry("d3dcompiler_47.dll")
        /\ data_dir = pre.data

\* the addon variant was installed over an installed vanilla variant
AddonInstalledOverVanilla ==
    /\ last.op = "install_reshade"
    /\ last.res = "Ok"
    /\ ~last.vanilla
    /\ Before("dxgi.dll") = LinkEntry("ReShade64.Vanilla.dll")
    /\ Now("dxgi.dll") = LinkEntry("ReShade64.Addon.dll")
    /\ data_dir["ReShade64.Vanilla.dll"] # Absent


\* the git operation `op` was performed by pull
Performed(op) == \E i \in 1..Len(git_ops) : git_ops[i] = op

DownloadNeverPanics ==
    dl_pc = "done" => dl_result # "panic"


\* C25: whenever install_preset_for_game returns Ok, both of its names are
\* symlinks in the game directory afterwards, whatever the game directory held
\* before the call.
PresetSuccessMeansBothLinks ==
    (last.op = "install_preset_for_game" /\ last.res = "Ok") =>
        \A n \in PresetNames : Now(n).kind = "link"


\* the four names uninstall removes from the game directory
UninstallNames == {"dxgi.dll", "d3dcompiler_47.dll", "reshade-presets", "reshade-shaders"}

\* C26: the binary's install_reshade and uninstall change the list of managed
\* games only on success: after an error the list is what it was before the
\* call; a path was appended only with both symlinks created, and removed only
\* with every removal done (each name gone, or a dangling link that exists()
\* does not see).
ListChangesOnlyOnSuccess ==
    (crate = "bin" /\ last.op \in {"install_reshade", "uninstall"}) =>
        /\ last.res # "Ok" => game_paths = pre.paths
        /\ (last.op = "install_reshade" /\ game_paths # pre.paths) =>
               /\ game_paths = Append(pre.paths, last.game)
               /\ Now("dxgi.dll") = LinkEntry(VariantFile(last.vanilla))
               /\ Now("d3dcompiler_47.dll") = LinkEntry("d3dcompiler_47.dll")
        /\ (last.op = "uninstall" /\ game_paths # pre.paths) =>
               /\ game_paths = Retain(pre.paths, last.game)
               /\ \A n \in UninstallNames :
                      \/ Now(n).kind = "absent"
                      \/ Now(n).kind = "link" /\ Now(n) = Before(n)

\* an uninstall of a managed game failed after it had removed dxgi.dll
FailedUninstallKeptList ==
    /\ crate = "bin"
    /\ last.op = "uninstall"
    /\ last.res # "Ok"
    /\ InSeq(last.game, game_paths)
    /\ Before("dxgi.dll").kind = "file"
    /\ Now("dxgi.dll").kind = "absent"

====
